---- MODULE Spec2Model ----
(***************************************************************************)
(* State-machine model of the command processor of the prediction-market   *)
(* zkapp (src/src/command.rs) and of its settlement queue                   *)
(* (src/src/settlement.rs).                                                 *)
(*                                                                         *)
(* A handler runs to completion on a private copy of the player record     *)
(* obtained from Player::get_from_pid; a change to that copy becomes        *)
(* visible to later commands only through player.store().  Each handler is *)
(* therefore a pure operator from the stored state and the command to an    *)
(* outcome record                                                           *)
(*     [res, stores, market, events, settle, trace]                         *)
(* whose stores are the records passed to store(), in program order, and    *)
(* whose trace lists, in program order, the calls the handler made on the   *)
(* shared state: the borrows of GLOBAL_STATE and their releases, the engine *)
(* calls, store(), insert_event and append_settlement.                      *)
(*                                                                         *)
(* The player record's mutators, the market state and the pricing engine   *)
(* live in crate::player and crate::state, which are not part of the       *)
(* source at hand; they are modelled from their documented contract.  The  *)
(* pricing engine's numeric answers are opaque, so they are an input of    *)
(* the step (reply), drawn from a bounded set.                              *)
(*                                                                         *)
(* u64 quantities are naturals; the bounds keep every sum far below 2^64,  *)
(* so no addition wraps.  The one word whose width matters, the first      *)
(* word of the Withdraw payload, is kept as its two 32-bit halves.          *)
(***************************************************************************)
EXTENDS Integers, Sequences, FiniteSets, TLC

(* ------------------------------ bounds -------------------------------- *)

NumPids == 2        \* identities that may be installed
MaxNonce == 2       \* largest nonce a stored player record reaches
MaxOps == 3         \* commands that advance a stored nonce over a run
MaxAmount == 2      \* largest amount / share count carried by a command
MaxReply == 1       \* largest shares / payout / fee answered by the engine
MaxTime == 1        \* largest value of the market's time counter
MaxType == 1        \* largest bet_type / sell_type carried by a command
MaxSettle == 2      \* settlement entries appended over a run
MaxEvents == 2      \* events emitted over a run

(* --------------------------- error codes ------------------------------ *)
(* crate::error is named by decode_error only; a code is modelled by the   *)
(* name decode_error gives it.                                             *)

ERROR_INVALID_BET_AMOUNT == "InvalidBetAmount"
ERROR_MARKET_NOT_ACTIVE == "MarketNotActive"
ERROR_MARKET_NOT_RESOLVED == "MarketNotResolved"
ERROR_NO_WINNING_POSITION == "NoWinningPosition"
ERROR_ALREADY_CLAIMED == "AlreadyClaimed"
ERROR_INSUFFICIENT_BALANCE == "InsufficientBalance"
ERROR_MARKET_ALREADY_RESOLVED == "MarketAlreadyResolved"
ERROR_INVALID_BET_TYPE == "InvalidBetType"
ERROR_PLAYER_NOT_EXIST == "PlayerNotExist"
ERROR_PLAYER_ALREADY_EXISTS == "PlayerAlreadyExists"

OK == "Ok"          \* Result::Ok(())
HALT == "Halt"      \* require(false) / unwrap() on None: the command traps

ErrorCodes ==
    { ERROR_INVALID_BET_AMOUNT, ERROR_MARKET_NOT_ACTIVE, ERROR_MARKET_NOT_RESOLVED,
      ERROR_NO_WINNING_POSITION, ERROR_ALREADY_CLAIMED, ERROR_INSUFFICIENT_BALANCE,
      ERROR_MARKET_ALREADY_RESOLVED, ERROR_INVALID_BET_TYPE, ERROR_PLAYER_NOT_EXIST,
      ERROR_PLAYER_ALREADY_EXISTS }

EVENT_BET_UPDATE == "EVENT_BET_UPDATE"

(* ------------------------------ state --------------------------------- *)

VARIABLES
    players,      \* the stored player ledger: pid -> record, for the installed pids
    market,       \* GLOBAL_STATE: the market record
    settlement,   \* SETTLEMENT.0: the queued WithdrawInfo entries
    events,       \* the event log written by insert_event
    appended,     \* history: every entry ever passed to append_settlement
    flushed,      \* history: the bytes of all flush_settlement results, in order
    succeeded,    \* history: the <<pid, nonce>> of the commands that returned Ok
    claims,       \* history: <<pid, res>> of the Claims that returned Ok or
                  \* NoWinningPosition
    last          \* the command just processed, and its result

vars == <<players, market, settlement, events, appended, flushed, succeeded, claims, last>>

(* ---------------------------- identities ------------------------------ *)

Pids == { <<w, 0>> : w \in 1..NumPids }     \* [u64; 2]
Nonces == 0..MaxNonce
Amounts == 0..MaxAmount

\* A u64 kept as its high and low 32-bit halves.
Wide(h, l) == [hi |-> h, lo |-> l]

\* x & 0xffffffff
Low32(w) == w.lo

(* --------------------------- player record ---------------------------- *)

NewPlayer(pid) ==
    [ player_id |-> pid, nonce |-> 0, balance |-> 0,
      yes_shares |-> 0, no_shares |-> 0, claimed |-> FALSE ]

\* Player::get_from_pid: Some(record) exactly for the stored pids.
Exists(pl, pid) == pid \in DOMAIN pl

\* player.store()
Store(pl, rec) ==
    [ q \in (DOMAIN pl) \cup {rec.player_id} |->
        IF q = rec.player_id THEN rec ELSE pl[q] ]

RECURSIVE StoreAll(_, _)
StoreAll(pl, recs) ==
    IF recs = <<>> THEN pl ELSE StoreAll(Store(pl, Head(recs)), Tail(recs))

\* check_and_inc_nonce: the guard it requires, and its effect.
NonceMatches(p, nonce) == p.nonce = nonce
IncNonce(p) == [p EXCEPT !.nonce = @ + 1]

(* ------------------------- handler outcomes --------------------------- *)

Out(res, stores, mkt, evs, setl) ==
    [ res |-> res, stores |-> stores, market |-> mkt, events |-> evs, settle |-> setl,
      trace |-> <<>> ]

\* An Err(code) return or a trap: nothing was stored, appended or emitted.
Fail(res, mkt) == Out(res, <<>>, mkt, <<>>, <<>>)

\* The outcome o of a path on which the handler made the calls tr.
Did(tr, o) == [o EXCEPT !.trace = tr]

\* The calls a trace lists.
BORROW == "borrow"              \* GLOBAL_STATE.0.borrow()
BORROW_MUT == "borrow_mut"      \* GLOBAL_STATE.0.borrow_mut()
RELEASE == "drop"               \* the borrow guard goes out of scope or is dropped
CHECK_NONCE == "check_and_inc_nonce"
STORE == "store"
INSERT_EVENT == "insert_event"
APPEND_SETTLEMENT == "append_settlement"
ENSURE_ACTIVE == "ensure_active"
PLACE_BET == "place_bet"
SELL_SHARES == "sell_shares"
CAN_RESOLVE == "can_resolve"
RESOLVE == "resolve"
CALCULATE_PAYOUT == "calculate_payout"

(* ------------------------------ Withdraw ------------------------------ *)

\* Variant: the entry keeps only the masked amount of the first word.
WithdrawInfoNew_Masked(data, feature) ==
    [ limbs |-> << Wide(0, Low32(data[1])), data[2], data[3] >>, feature |-> feature ]

\* zkwasm_rest_abi::WithdrawInfo::new(&[data[0], data[1], data[2]], 0)
WithdrawInfoNew(data, feature) == [ limbs |-> data, feature |-> feature ]

\* self.data[0] & 0xffffffff (the payload words are data[1..3] here)
WithdrawAmount(data) == Low32(data[1])

\* Variant: the balance is not compared with the amount.
WithdrawHandle_NoRequire(pl, mkt, pid, nonce, data) ==
    IF ~Exists(pl, pid) THEN Fail(ERROR_PLAYER_NOT_EXIST, mkt)
    ELSE IF ~NonceMatches(pl[pid], nonce) THEN Did(<<CHECK_NONCE>>, Fail(HALT, mkt))
    ELSE LET player == IncNonce(pl[pid])
             amount == WithdrawAmount(data)
         IN  Did(<<CHECK_NONCE, APPEND_SETTLEMENT, STORE>>,
                 Out(OK, << [player EXCEPT !.balance = @ - amount] >>, mkt, <<>>,
                     << WithdrawInfoNew(data, 0) >>))

WithdrawHandle(pl, mkt, pid, nonce, data) ==
    IF ~Exists(pl, pid) THEN Fail(ERROR_PLAYER_NOT_EXIST, mkt)
    ELSE IF ~NonceMatches(pl[pid], nonce) THEN Did(<<CHECK_NONCE>>, Fail(HALT, mkt))
    ELSE LET player == IncNonce(pl[pid])
             balance == player.balance
             amount == WithdrawAmount(data)
         IN  IF ~(balance >= amount) THEN Did(<<CHECK_NONCE>>, Fail(HALT, mkt))
             ELSE Did(<<CHECK_NONCE, APPEND_SETTLEMENT, STORE>>,
                      Out(OK, << [player EXCEPT !.balance = @ - amount] >>, mkt, <<>>,
                          << WithdrawInfoNew(data, 0) >>))

(* ------------------------------ Deposit ------------------------------- *)

\* Variant: the caller is stored before the target is looked up.
DepositHandle_StoresCaller(pl, mkt, pid, nonce, data) ==
    IF ~Exists(pl, pid) THEN Fail(HALT, mkt)
    ELSE IF ~NonceMatches(pl[pid], nonce) THEN Did(<<CHECK_NONCE>>, Fail(HALT, mkt))
    ELSE LET admin == IncNonce(pl[pid])
             target == <<data[1], data[2]>>
         IN  IF ~Exists(pl, target)
               THEN Did(<<CHECK_NONCE, STORE>>,
                        Out(ERROR_PLAYER_NOT_EXIST, <<admin>>, mkt, <<>>, <<>>))
               ELSE LET player == [pl[target] EXCEPT !.balance = @ + data[3]]
                    IN  Did(<<CHECK_NONCE, STORE, STORE>>,
                            Out(OK, <<player, admin>>, mkt, <<>>, <<>>))

DepositHandle(pl, mkt, pid, nonce, data) ==
    IF ~Exists(pl, pid) THEN Fail(HALT, mkt)                       \* unwrap()
    ELSE IF ~NonceMatches(pl[pid], nonce) THEN Did(<<CHECK_NONCE>>, Fail(HALT, mkt))
    ELSE LET admin == IncNonce(pl[pid])
             target == <<data[1], data[2]>>
         IN  IF ~Exists(pl, target)
               THEN Did(<<CHECK_NONCE>>, Fail(ERROR_PLAYER_NOT_EXIST, mkt))
             ELSE LET player == [pl[target] EXCEPT !.balance = @ + data[3]]
                  IN  Did(<<CHECK_NONCE, STORE, STORE>>,
                          Out(OK, <<player, admin>>, mkt, <<>>, <<>>))

(* -------------------------- settlement queue -------------------------- *)

BytesPerHalf == 4      \* a 32-bit half of a word, in bytes
WordsPerEntry == 3

\* Big-endian bytes of a 32-bit value.
HalfBytes(h) ==
    << (h \div 16777216) % 256, (h \div 65536) % 256, (h \div 256) % 256, h % 256 >>

WordBytes(w) == HalfBytes(w.hi) \o HalfBytes(w.lo)

\* WithdrawInfo::flush(&mut bytes): the entry's three 64-bit words.  (The
\* encoder is zkwasm_rest_abi's; flush_settlement only reserves 32 bytes per
\* entry as a capacity hint.)
EntryBytes(e) == WordBytes(e.limbs[1]) \o WordBytes(e.limbs[2]) \o WordBytes(e.limbs[3])

BytesPerEntry == WordsPerEntry * 2 * BytesPerHalf

\* Variant: the loop stops one entry early.
RECURSIVE FlushBytes_DropsLast(_)
FlushBytes_DropsLast(q) ==
    IF Len(q) <= 1 THEN <<>> ELSE EntryBytes(Head(q)) \o FlushBytes_DropsLast(Tail(q))

RECURSIVE FlushBytes(_)
FlushBytes(q) ==
    IF q = <<>> THEN <<>> ELSE EntryBytes(Head(q)) \o FlushBytes(Tail(q))

\* SettlementInfo::settlement_size
settlement_size == Len(settlement)

\* Variant: the queue is not reset.
FlushRest_Keeps(q) == q

\* The queue left behind by flush_settlement (sinfo.0 = vec![]).
FlushRest(q) == <<>>

(* ------------------------------ market -------------------------------- *)
(* crate::state and the pricing engine, from their documented contract.    *)
(* The market is active inside its time window and until it is resolved.   *)

StartTime == 0
EndTime == 1

InitMarket ==
    [ counter |-> 0, txcounter |-> 0, resolved |-> FALSE, outcome |-> FALSE,
      total_fees_collected |-> 0 ]

\* A fallible call's answer.
Okay(v, m) == [ ok |-> TRUE, val |-> v, err |-> OK, market |-> m ]
Error(e, m) == [ ok |-> FALSE, val |-> 0, err |-> e, market |-> m ]

\* What the pricing engine answers to one call: a value and the fee it keeps,
\* or an error code.
Reply(ok, v, fee, e) == [ ok |-> ok, val |-> v, fee |-> fee, err |-> e ]
NoReply == Reply(TRUE, 0, 0, OK)
TradeReplies ==
    { Reply(TRUE, v, f, OK) : v \in 1..MaxReply, f \in 0..MaxReply }
      \cup { Reply(FALSE, 0, 0, ERROR_INVALID_BET_TYPE) }
PayoutReplies == { Reply(TRUE, v, 0, OK) : v \in 0..MaxReply }

is_active(m) == ~m.resolved /\ StartTime <= m.counter /\ m.counter < EndTime

ensure_active(m) ==
    IF is_active(m) THEN Okay(m.counter, m) ELSE Error(ERROR_MARKET_NOT_ACTIVE, m)

Trade(m, reply) ==
    IF reply.ok
      THEN Okay(reply.val, [m EXCEPT !.total_fees_collected = @ + reply.fee])
      ELSE Error(reply.err, m)

place_bet(m, bet_type, amount, reply) == Trade(m, reply)

sell_shares(m, sell_type, shares, reply) == Trade(m, reply)

can_resolve(m, current_time) == current_time >= EndTime

resolve(m, outcome_bool) ==
    IF m.resolved THEN Error(ERROR_MARKET_ALREADY_RESOLVED, m)
    ELSE Okay(0, [m EXCEPT !.resolved = TRUE, !.outcome = outcome_bool])

calculate_payout(m, yes_shares, no_shares, reply) ==
    IF ~m.resolved THEN Error(ERROR_MARKET_NOT_RESOLVED, m) ELSE Okay(reply.val, m)

(* ------------------------ player data mutators ------------------------ *)
(* crate::player, from its documented contract.                            *)

POk(p) == [ ok |-> TRUE, err |-> OK, player |-> p ]
PErr(e, p) == [ ok |-> FALSE, err |-> e, player |-> p ]

spend_balance(p, amount) ==
    IF p.balance < amount THEN PErr(ERROR_INSUFFICIENT_BALANCE, p)
    ELSE POk([p EXCEPT !.balance = @ - amount])

add_balance(p, amount) == [p EXCEPT !.balance = @ + amount]
add_yes_shares(p, shares) == [p EXCEPT !.yes_shares = @ + shares]
add_no_shares(p, shares) == [p EXCEPT !.no_shares = @ + shares]

claim_winnings(p) ==
    IF p.claimed THEN PErr(ERROR_ALREADY_CLAIMED, p)
    ELSE POk([p EXCEPT !.claimed = TRUE])

(* ------------------------------ Activity ------------------------------ *)

\* GLOBAL_STATE.0.borrow_mut().ensure_active()?: the guard is a temporary of
\* the statement and is released when the statement ends, also on the ? return.
ActiveGate == << BORROW_MUT, ENSURE_ACTIVE, RELEASE >>

\* GLOBAL_STATE.0.borrow().txcounter
ReadTxid == << BORROW, RELEASE >>

\* GLOBAL_STATE.0.borrow_mut().market.call(..)?
Engine(call) == << BORROW_MUT, call, RELEASE >>

emit_bet_event(player_id, bet_type, amount, shares, txid, counter) ==
    << EVENT_BET_UPDATE,
       << txid, player_id[1], player_id[2], bet_type, amount, shares, counter >> >>

\* Variant: the sell type is written as it came.
emit_sell_event_Plain(player_id, sell_type, shares, payout, txid, counter) ==
    << EVENT_BET_UPDATE,
       << txid, player_id[1], player_id[2], sell_type, shares, payout, counter >> >>

emit_sell_event(player_id, sell_type, shares, payout, txid, counter) ==
    << EVENT_BET_UPDATE,
       << txid, player_id[1], player_id[2], sell_type + 10, shares, payout, counter >> >>

\* Variant: the market gate is evaluated before the amount.
handle_bet_GateFirst(player, mkt, bet_type, amount, reply) ==
    LET active == ensure_active(mkt) IN
    IF ~active.ok THEN Did(ActiveGate, Fail(active.err, mkt))
    ELSE IF amount = 0 THEN Did(ActiveGate, Fail(ERROR_INVALID_BET_AMOUNT, mkt))
    ELSE LET spent == spend_balance(player, amount) IN
    IF ~spent.ok THEN Did(ActiveGate \o ReadTxid, Fail(spent.err, mkt))
    ELSE LET bet == place_bet(mkt, bet_type, amount, reply) IN
    IF ~bet.ok
      THEN Did(ActiveGate \o ReadTxid \o Engine(PLACE_BET), Fail(bet.err, bet.market))
    ELSE LET credited == IF bet_type = 1 THEN add_yes_shares(spent.player, bet.val)
                                         ELSE add_no_shares(spent.player, bet.val)
         IN  Did(ActiveGate \o ReadTxid \o Engine(PLACE_BET) \o << STORE, INSERT_EVENT >>,
                 Out(OK, << credited >>, bet.market,
                     << emit_bet_event(player.player_id, bet_type, amount, bet.val,
                                       mkt.txcounter, active.val) >>,
                     <<>>))

handle_bet(player, mkt, bet_type, amount, reply) ==
    IF amount = 0 THEN Fail(ERROR_INVALID_BET_AMOUNT, mkt)
    ELSE LET active == ensure_active(mkt) IN
    IF ~active.ok THEN Did(ActiveGate, Fail(active.err, mkt))
    ELSE LET current_time == active.val
             txid == mkt.txcounter
             spent == spend_balance(player, amount) IN
    IF ~spent.ok THEN Did(ActiveGate \o ReadTxid, Fail(spent.err, mkt))
    ELSE LET bet == place_bet(mkt, bet_type, amount, reply) IN
    IF ~bet.ok
      THEN Did(ActiveGate \o ReadTxid \o Engine(PLACE_BET), Fail(bet.err, bet.market))
    ELSE LET shares == bet.val
             credited == IF bet_type = 1 THEN add_yes_shares(spent.player, shares)
                                         ELSE add_no_shares(spent.player, shares)
         IN  Did(ActiveGate \o ReadTxid \o Engine(PLACE_BET) \o << STORE, INSERT_EVENT >>,
                 Out(OK, << credited >>, bet.market,
                     << emit_bet_event(player.player_id, bet_type, amount, shares,
                                       txid, current_time) >>,
                     <<>>))

\* Variant: the shares sold are taken from the YES side whatever the type.
handle_sell_DebitsYes(player, mkt, sell_type, shares, reply) ==
    IF shares = 0 THEN Fail(ERROR_INVALID_BET_AMOUNT, mkt)
    ELSE LET active == ensure_active(mkt) IN
    IF ~active.ok THEN Did(ActiveGate, Fail(active.err, mkt))
    ELSE IF sell_type = 1 /\ player.yes_shares < shares
      THEN Did(ActiveGate \o ReadTxid, Fail(ERROR_INSUFFICIENT_BALANCE, mkt))
    ELSE IF sell_type # 1 /\ player.no_shares < shares
      THEN Did(ActiveGate \o ReadTxid, Fail(ERROR_INSUFFICIENT_BALANCE, mkt))
    ELSE LET sale == sell_shares(mkt, sell_type, shares, reply) IN
    IF ~sale.ok
      THEN Did(ActiveGate \o ReadTxid \o Engine(SELL_SHARES), Fail(sale.err, sale.market))
    ELSE LET debited == [player EXCEPT !.yes_shares = @ - shares]
             paid == [debited EXCEPT !.balance = @ + sale.val]
         IN  Did(ActiveGate \o ReadTxid \o Engine(SELL_SHARES) \o << STORE, INSERT_EVENT >>,
                 Out(OK, << paid >>, sale.market,
                     << emit_sell_event(player.player_id, sell_type, shares, sale.val,
                                        mkt.txcounter, active.val) >>,
                     <<>>))

\* Variant: the engine is asked before the holdings are compared.
handle_sell_EngineFirst(player, mkt, sell_type, shares, reply) ==
    IF shares = 0 THEN Fail(ERROR_INVALID_BET_AMOUNT, mkt)
    ELSE LET active == ensure_active(mkt) IN
    IF ~active.ok THEN Did(ActiveGate, Fail(active.err, mkt))
    ELSE LET sale == sell_shares(mkt, sell_type, shares, reply) IN
    IF ~sale.ok
      THEN Did(ActiveGate \o ReadTxid \o Engine(SELL_SHARES), Fail(sale.err, sale.market))
    ELSE IF sell_type = 1 /\ player.yes_shares < shares
      THEN Did(ActiveGate \o ReadTxid \o Engine(SELL_SHARES),
               Fail(ERROR_INSUFFICIENT_BALANCE, sale.market))
    ELSE IF sell_type # 1 /\ player.no_shares < shares
      THEN Did(ActiveGate \o ReadTxid \o Engine(SELL_SHARES),
               Fail(ERROR_INSUFFICIENT_BALANCE, sale.market))
    ELSE LET debited == IF sell_type = 1
                          THEN [player EXCEPT !.yes_shares = @ - shares]
                          ELSE [player EXCEPT !.no_shares = @ - shares]
             paid == [debited EXCEPT !.balance = @ + sale.val]
         IN  Did(ActiveGate \o ReadTxid \o Engine(SELL_SHARES) \o << STORE, INSERT_EVENT >>,
                 Out(OK, << paid >>, sale.market,
                     << emit_sell_event(player.player_id, sell_type, shares, sale.val,
                                        mkt.txcounter, active.val) >>,
                     <<>>))

handle_sell(player, mkt, sell_type, shares, reply) ==
    IF shares = 0 THEN Fail(ERROR_INVALID_BET_AMOUNT, mkt)
    ELSE LET active == ensure_active(mkt) IN
    IF ~active.ok THEN Did(ActiveGate, Fail(active.err, mkt))
    ELSE LET current_time == active.val
             txid == mkt.txcounter IN
    IF sell_type = 1 /\ player.yes_shares < shares
      THEN Did(ActiveGate \o ReadTxid, Fail(ERROR_INSUFFICIENT_BALANCE, mkt))
    ELSE IF sell_type # 1 /\ player.no_shares < shares
      THEN Did(ActiveGate \o ReadTxid, Fail(ERROR_INSUFFICIENT_BALANCE, mkt))
    ELSE LET sale == sell_shares(mkt, sell_type, shares, reply) IN
    IF ~sale.ok
      THEN Did(ActiveGate \o ReadTxid \o Engine(SELL_SHARES), Fail(sale.err, sale.market))
    ELSE LET payout == sale.val
             debited == IF sell_type = 1
                          THEN [player EXCEPT !.yes_shares = @ - shares]
                          ELSE [player EXCEPT !.no_shares = @ - shares]
             paid == [debited EXCEPT !.balance = @ + payout]
         IN  Did(ActiveGate \o ReadTxid \o Engine(SELL_SHARES) \o << STORE, INSERT_EVENT >>,
                 Out(OK, << paid >>, sale.market,
                     << emit_sell_event(player.player_id, sell_type, shares, payout,
                                        txid, current_time) >>,
                     <<>>))

\* Variant: the time gate is in force.
ResolveGateCloses_Enabled(mkt, current_time) == ~can_resolve(mkt, current_time)

\* The time gate of handle_resolve: !can_resolve(current_time) && false.
ResolveGateCloses(mkt, current_time) == ~can_resolve(mkt, current_time) /\ FALSE

\* The exclusive borrow taken on entry is held until the function returns.
handle_resolve(mkt, outcome) ==
    LET current_time == mkt.counter IN
    IF ResolveGateCloses(mkt, current_time)
      THEN Did(<< BORROW_MUT, CAN_RESOLVE, RELEASE >>, Fail(ERROR_MARKET_NOT_RESOLVED, mkt))
    ELSE LET outcome_bool == outcome # 0
             done == resolve(mkt, outcome_bool)
         IN  IF ~done.ok
               THEN Did(<< BORROW_MUT, CAN_RESOLVE, RESOLVE, RELEASE >>,
                        Fail(done.err, done.market))
               ELSE Did(<< BORROW_MUT, CAN_RESOLVE, RESOLVE, RELEASE >>,
                        Out(OK, <<>>, done.market, <<>>, <<>>))

\* Variant: the record is stored as soon as the claim flag is set.
handle_claim_StoresFlag(player, mkt, reply) ==
    IF ~mkt.resolved THEN Did(<< BORROW, RELEASE >>, Fail(ERROR_MARKET_NOT_RESOLVED, mkt))
    ELSE LET claim == claim_winnings(player) IN
    IF ~claim.ok THEN Did(<< BORROW, RELEASE >>, Fail(claim.err, mkt))
    ELSE LET pay == calculate_payout(mkt, claim.player.yes_shares,
                                     claim.player.no_shares, reply) IN
    IF ~pay.ok THEN Did(<< BORROW, CALCULATE_PAYOUT, RELEASE >>, Fail(pay.err, mkt))
    ELSE IF pay.val = 0
      THEN Did(<< BORROW, STORE, CALCULATE_PAYOUT, RELEASE >>,
               Out(ERROR_NO_WINNING_POSITION, << claim.player >>, mkt, <<>>, <<>>))
    ELSE Did(<< BORROW, STORE, CALCULATE_PAYOUT, STORE, RELEASE >>,
             Out(OK, << add_balance(claim.player, pay.val) >>, mkt, <<>>, <<>>))

\* Variant: the claim flag is neither checked nor set.
handle_claim_NoFlag(player, mkt, reply) ==
    IF ~mkt.resolved THEN Did(<< BORROW, RELEASE >>, Fail(ERROR_MARKET_NOT_RESOLVED, mkt))
    ELSE LET pay == calculate_payout(mkt, player.yes_shares, player.no_shares, reply) IN
    IF ~pay.ok THEN Did(<< BORROW, CALCULATE_PAYOUT, RELEASE >>, Fail(pay.err, mkt))
    ELSE IF pay.val = 0
      THEN Did(<< BORROW, CALCULATE_PAYOUT, RELEASE >>, Fail(ERROR_NO_WINNING_POSITION, mkt))
    ELSE Did(<< BORROW, CALCULATE_PAYOUT, STORE, RELEASE >>,
             Out(OK, << add_balance(player, pay.val) >>, mkt, <<>>, <<>>))

\* Variant: the payout is added to the record as it was before claim_winnings.
handle_claim_DropsFlag(player, mkt, reply) ==
    IF ~mkt.resolved THEN Did(<< BORROW, RELEASE >>, Fail(ERROR_MARKET_NOT_RESOLVED, mkt))
    ELSE LET claim == claim_winnings(player) IN
    IF ~claim.ok THEN Did(<< BORROW, RELEASE >>, Fail(claim.err, mkt))
    ELSE LET pay == calculate_payout(mkt, player.yes_shares, player.no_shares, reply) IN
    IF ~pay.ok THEN Did(<< BORROW, CALCULATE_PAYOUT, RELEASE >>, Fail(pay.err, mkt))
    ELSE IF pay.val = 0
      THEN Did(<< BORROW, CALCULATE_PAYOUT, RELEASE >>, Fail(ERROR_NO_WINNING_POSITION, mkt))
    ELSE Did(<< BORROW, CALCULATE_PAYOUT, STORE, RELEASE >>,
             Out(OK, << add_balance(player, pay.val) >>, mkt, <<>>, <<>>))

\* The shared borrow taken on entry is released by each early return, and on
\* the success path by drop(global_state), which follows player.store().
handle_claim(player, mkt, reply) ==
    IF ~mkt.resolved THEN Did(<< BORROW, RELEASE >>, Fail(ERROR_MARKET_NOT_RESOLVED, mkt))
    ELSE LET claim == claim_winnings(player) IN
    IF ~claim.ok THEN Did(<< BORROW, RELEASE >>, Fail(claim.err, mkt))
    ELSE LET pay == calculate_payout(mkt, claim.player.yes_shares,
                                     claim.player.no_shares, reply) IN
    IF ~pay.ok THEN Did(<< BORROW, CALCULATE_PAYOUT, RELEASE >>, Fail(pay.err, mkt))
    ELSE LET payout == pay.val IN
    IF payout = 0
      THEN Did(<< BORROW, CALCULATE_PAYOUT, RELEASE >>, Fail(ERROR_NO_WINNING_POSITION, mkt))
    ELSE Did(<< BORROW, CALCULATE_PAYOUT, STORE, RELEASE >>,
             Out(OK, << add_balance(claim.player, payout) >>, mkt, <<>>, <<>>))

\* Variant: the pool is paid out but not reset.
handle_withdraw_fees_KeepsPool(player, mkt) ==
    LET fees_collected == mkt.total_fees_collected IN
    IF fees_collected = 0
      THEN Did(<< BORROW_MUT, RELEASE >>, Fail(ERROR_NO_WINNING_POSITION, mkt))
    ELSE Did(<< BORROW_MUT, RELEASE, STORE >>,
             Out(OK, << add_balance(player, fees_collected) >>, mkt, <<>>, <<>>))

\* Variant: the record is stored before the exclusive borrow is dropped.
handle_withdraw_fees_StoresFirst(player, mkt) ==
    LET fees_collected == mkt.total_fees_collected IN
    IF fees_collected = 0
      THEN Did(<< BORROW_MUT, RELEASE >>, Fail(ERROR_NO_WINNING_POSITION, mkt))
    ELSE Did(<< BORROW_MUT, STORE, RELEASE >>,
             Out(OK, << add_balance(player, fees_collected) >>,
                 [mkt EXCEPT !.total_fees_collected = 0], <<>>, <<>>))

\* drop(global_state) precedes player.store().
handle_withdraw_fees(player, mkt) ==
    LET fees_collected == mkt.total_fees_collected IN
    IF fees_collected = 0
      THEN Did(<< BORROW_MUT, RELEASE >>, Fail(ERROR_NO_WINNING_POSITION, mkt))
    ELSE Did(<< BORROW_MUT, RELEASE, STORE >>,
             Out(OK, << add_balance(player, fees_collected) >>,
                 [mkt EXCEPT !.total_fees_collected = 0], <<>>, <<>>))

\* enum Activity, as <<tag, first field, second field>>.
Bet(bet_type, amount) == << "Bet", bet_type, amount >>
Sell(sell_type, shares) == << "Sell", sell_type, shares >>
Resolve(outcome) == << "Resolve", outcome, 0 >>
Claim == << "Claim", 0, 0 >>
WithdrawFees == << "WithdrawFees", 0, 0 >>

\* Variant: the activity is dispatched without the nonce check.
ActivityHandle_NoGate(pl, mkt, pid, nonce, act, reply) ==
    IF ~Exists(pl, pid) THEN Fail(ERROR_PLAYER_NOT_EXIST, mkt)
    ELSE LET player == IncNonce(pl[pid])
             o == CASE act[1] = "Bet" -> handle_bet(player, mkt, act[2], act[3], reply)
                    [] act[1] = "Sell" -> handle_sell(player, mkt, act[2], act[3], reply)
                    [] act[1] = "Resolve" -> handle_resolve(mkt, act[2])
                    [] act[1] = "Claim" -> handle_claim(player, mkt, reply)
                    [] act[1] = "WithdrawFees" -> handle_withdraw_fees(player, mkt)
         IN  o

ActivityHandle(pl, mkt, pid, nonce, act, reply) ==
    IF ~Exists(pl, pid) THEN Fail(ERROR_PLAYER_NOT_EXIST, mkt)
    ELSE IF ~NonceMatches(pl[pid], nonce) THEN Did(<<CHECK_NONCE>>, Fail(HALT, mkt))
    ELSE LET player == IncNonce(pl[pid])
             o == CASE act[1] = "Bet" -> handle_bet(player, mkt, act[2], act[3], reply)
                    [] act[1] = "Sell" -> handle_sell(player, mkt, act[2], act[3], reply)
                    [] act[1] = "Resolve" -> handle_resolve(mkt, act[2])
                    [] act[1] = "Claim" -> handle_claim(player, mkt, reply)
                    [] act[1] = "WithdrawFees" -> handle_withdraw_fees(player, mkt)
         IN  Did(<<CHECK_NONCE>> \o o.trace, o)

(* ------------------------------ actions ------------------------------- *)

\* No command is being processed: the last result has been handed to the host.
Idle == [ op |-> "Idle", pid |-> <<0, 0>>, nonce |-> 0, arg |-> <<>>,
          res |-> OK, reply |-> <<>>, trace |-> <<>> ]

Init ==
    /\ players = << >>
    /\ market = InitMarket
    /\ settlement = <<>>
    /\ events = <<>>
    /\ appended = <<>>
    /\ flushed = <<>>
    /\ succeeded = {}
    /\ claims = {}
    /\ last = Idle

\* The engine's answer was used on the handler's path: the command succeeded,
\* or calculate_payout answered 0.
Answered(o) == o.res = OK \/ CALCULATE_PAYOUT \in { o.trace[i] : i \in DOMAIN o.trace }

\* The effect of a handler's outcome on the stored state.
Apply(op, pid, nonce, arg, reply, o) ==
    /\ players' = StoreAll(players, o.stores)
    /\ market' = o.market
    /\ events' = events \o o.events
    /\ settlement' = settlement \o o.settle
    /\ appended' = appended \o o.settle
    /\ succeeded' = IF o.res = OK THEN succeeded \cup {<<pid, nonce>>} ELSE succeeded
    /\ claims' = IF op = "Claim" /\ o.res \in {OK, ERROR_NO_WINNING_POSITION}
                    THEN claims \cup {<<pid, o.res>>} ELSE claims
    /\ last' = [ op |-> op, pid |-> pid, nonce |-> nonce, arg |-> arg,
                 res |-> o.res, reply |-> IF Answered(o) THEN reply ELSE <<>>,
                 trace |-> o.trace ]
    /\ UNCHANGED flushed

\* The number of commands that have advanced a stored nonce.
RECURSIVE NonceTotal(_, _)
NonceTotal(pl, pids) ==
    IF pids = {} THEN 0
    ELSE LET q == CHOOSE x \in pids : TRUE
         IN  pl[q].nonce + NonceTotal(pl, pids \ {q})

\* The histories and counters are capped: no stored nonce passes MaxNonce, at
\* most MaxOps commands advance a nonce, at most MaxSettle entries are ever
\* appended and at most MaxEvents events emitted.
RoomFor(o) ==
    LET stored == StoreAll(players, o.stores) IN
    /\ \A i \in 1..Len(o.stores) : o.stores[i].nonce <= MaxNonce
    /\ NonceTotal(stored, DOMAIN stored) <= MaxOps
    /\ Len(appended) + Len(o.settle) <= MaxSettle
    /\ Len(events) + Len(o.events) <= MaxEvents

\* Payloads whose first word has its high half clear, and set.
WithdrawData ==
    { << Wide(h, l), Wide(0, 0), Wide(0, MaxAmount) >> : h \in 0..1, l \in {1} }

Withdraw ==
    /\ last = Idle
    /\ \E pid \in Pids, nonce \in Nonces, data \in WithdrawData :
        LET o == WithdrawHandle(players, market, pid, nonce, data) IN
        /\ RoomFor(o)
        /\ Apply("Withdraw", pid, nonce, data, <<>>, o)

DepositData == { << t[1], t[2], a >> : t \in Pids, a \in {MaxAmount} }

Deposit ==
    /\ last = Idle
    /\ \E pid \in Pids, nonce \in Nonces, data \in DepositData :
        LET o == DepositHandle(players, market, pid, nonce, data) IN
        /\ RoomFor(o)
        /\ Apply("Deposit", pid, nonce, data, <<>>, o)

Types == 0..MaxType

Activities ==
    { Bet(t, a) : t \in Types, a \in Amounts } \cup { Sell(t, a) : t \in Types, a \in Amounts }
      \cup { Resolve(x) : x \in 0..1 } \cup { Claim, WithdrawFees }

\* The engine calls an activity can reach decide what the engine is asked.
EngineReplies(act) ==
    CASE act[1] \in {"Bet", "Sell"} /\ act[3] # 0 -> TradeReplies
      [] act[1] = "Claim" -> PayoutReplies
      [] OTHER -> {NoReply}

Activity ==
    /\ last = Idle
    /\ \E pid \in Pids, nonce \in Nonces, act \in Activities :
       \E reply \in EngineReplies(act) :
        LET o == ActivityHandle(players, market, pid, nonce, act, reply) IN
        /\ RoomFor(o)
        /\ Apply(act[1], pid, nonce, act, reply, o)

\* Command::InstallPlayer
InstallPlayer ==
    \E pid \in Pids :
        /\ last = Idle
        /\ ~Exists(players, pid)
        /\ players' = Store(players, NewPlayer(pid))
        /\ last' = [Idle EXCEPT !.op = "InstallPlayer", !.pid = pid]
        /\ UNCHANGED <<market, settlement, events, appended, flushed, succeeded, claims>>

\* Command::Tick
Tick ==
    /\ last = Idle
    /\ market.counter < MaxTime
    /\ market' = [market EXCEPT !.counter = @ + 1]
    /\ last' = [Idle EXCEPT !.op = "Tick"]
    /\ UNCHANGED <<players, settlement, events, appended, flushed, succeeded, claims>>

\* SettlementInfo::flush_settlement; last.arg is settlement_size() just before
\* the call and last.reply the returned buffer.
Flush ==
    /\ last = Idle
    /\ settlement' = FlushRest(settlement)
    /\ flushed' = flushed \o FlushBytes(settlement)
    /\ last' = [Idle EXCEPT !.op = "Flush", !.arg = << settlement_size >>,
                            !.reply = FlushBytes(settlement)]
    /\ UNCHANGED <<players, market, events, appended, succeeded, claims>>

\* The result is handed to the host; the next command may start.
Return ==
    /\ last # Idle
    /\ last' = Idle
    /\ UNCHANGED <<players, market, settlement, events, appended, flushed, succeeded, claims>>

Next == Withdraw \/ Deposit \/ Activity \/ InstallPlayer \/ Tick \/ Flush \/ Return

Spec == Init /\ [][Next]_vars

(* ============================== claims ================================= *)
(* last' describes the command a step processes and the result it          *)
(* returns; unprimed variables are the stored state the command found.     *)

HandlerOps == { "Withdraw", "Deposit", "Bet", "Sell", "Resolve", "Claim", "WithdrawFees" }

\* The step processes a command of one of the kinds ops.
Handles(ops) == last'.op \in ops

\* The authenticating player is stored and the command carries its expected nonce.
Admitted == Exists(players, last'.pid) /\ players[last'.pid].nonce = last'.nonce

LedgerUnchanged == UNCHANGED <<players, market, settlement, events>>

\* Every stored record other than those of the pids in keep is left as it was.
OthersUnchanged(keep) ==
    /\ DOMAIN players' = DOMAIN players
    /\ \A q \in DOMAIN players : q \notin keep => players'[q] = players[q]

SharesUnchanged(q) ==
    /\ players'[q].yes_shares = players[q].yes_shares
    /\ players'[q].no_shares = players[q].no_shares

(* C1 (as stated): for any player and nonce n, at most one command carrying
   nonce n returns success: a command never returns Ok when an earlier
   command of the same player with the same nonce has returned Ok. *)
C1_NonceUsedOnce ==
    [][ Handles(HandlerOps) /\ last'.res = OK
          => <<last'.pid, last'.nonce>> \notin succeeded ]_vars

(* C2: whenever a handler returns an error code, the stored player ledger,
   the market, the settlement queue and the event log are what they were
   before the command. *)
C2_FailureAtomic ==
    [][ Handles(HandlerOps) /\ last'.res \in ErrorCodes => LedgerUnchanged ]_vars

\* A Claim has returned NoWinningPosition, after its private copy had the
\* claim flag set, and the claimant's stored record still has it clear.
C2_Witness ==
    /\ last.op = "Claim" /\ last.res = ERROR_NO_WINNING_POSITION
    /\ ~players[last.pid].claimed
    /\ events # <<>>

(* C3 (as stated): once a player's Claim on the resolved market has been
   answered Ok or NoWinningPosition, every later Claim of that player that is
   admitted fails with AlreadyClaimed. *)
C3_SecondClaimAlreadyClaimed ==
    [][ /\ Handles({"Claim"}) /\ Admitted
        /\ \E r \in {OK, ERROR_NO_WINNING_POSITION} : <<last'.pid, r>> \in claims
        => last'.res = ERROR_ALREADY_CLAIMED ]_vars

(* C3 (amended): at most one Claim of a player succeeds, and every admitted
   Claim after a successful one fails with AlreadyClaimed; a Claim of a player
   none of whose Claims has succeeded never fails with AlreadyClaimed, also
   when an earlier one returned NoWinningPosition. *)
C3_ClaimOnce ==
    [][ Handles({"Claim"}) /\ Admitted
          => IF <<last'.pid, OK>> \in claims
               THEN last'.res = ERROR_ALREADY_CLAIMED
               ELSE last'.res # ERROR_ALREADY_CLAIMED ]_vars

\* A second Claim has been refused after a successful one.
C3_Witness ==
    /\ last.op = "Claim" /\ last.res = ERROR_ALREADY_CLAIMED
    /\ <<last.pid, OK>> \in claims

(* C4 (as stated): after a Deposit that returns success the target's stored
   balance is its balance before plus the deposited amount and the caller's
   stored nonce has advanced, for every caller/target pair, the target being
   the caller included. *)
C4_DepositCredits ==
    [][ Handles({"Deposit"}) /\ last'.res = OK
          => LET target == <<last'.arg[1], last'.arg[2]>> IN
             /\ players'[target].balance = players[target].balance + last'.arg[3]
             /\ players'[last'.pid].nonce = players[last'.pid].nonce + 1 ]_vars

(* C5 (as stated): in a Deposit the caller's record with its incremented nonce
   is persisted whatever the outcome, also when the target lookup fails. *)
C5_CallerAlwaysStored ==
    [][ Handles({"Deposit"}) /\ Admitted
          => players'[last'.pid].nonce = players[last'.pid].nonce + 1 ]_vars

(* C5 (amended): in a Deposit the caller's nonce is checked before the target
   is looked up; the caller's record with its incremented nonce is persisted
   exactly when the Deposit succeeds, and when the target lookup fails the
   handler returns PlayerNotExist and no stored record changes. *)
C5_CallerStoredOnSuccess ==
    [][ Handles({"Deposit"}) /\ Exists(players, last'.pid)
          => LET target == <<last'.arg[1], last'.arg[2]>> IN
             /\ ~Admitted => last'.res = HALT
             /\ Admitted /\ Exists(players, target)
                  => /\ last'.res = OK
                     /\ players'[last'.pid].nonce = players[last'.pid].nonce + 1
             /\ Admitted /\ ~Exists(players, target)
                  => /\ last'.res = ERROR_PLAYER_NOT_EXIST
                     /\ players' = players ]_vars

\* A Deposit by a stored caller has failed on the target lookup.
C5_Witness ==
    /\ last.op = "Deposit" /\ last.res = ERROR_PLAYER_NOT_EXIST
    /\ Exists(players, last.pid)
    /\ ~Exists(players, <<last.arg[1], last.arg[2]>>)

(* C6 (as stated): for every command with a handler, if no account is stored
   for the authenticating identity the handler returns PlayerNotExist, it does
   not halt, and no state changes. *)
C6_UnknownCallerRejected ==
    [][ Handles(HandlerOps) /\ ~Exists(players, last'.pid)
          => last'.res = ERROR_PLAYER_NOT_EXIST /\ LedgerUnchanged ]_vars

\* The bytes the entries es[1..k] are encoded to.
RECURSIVE Encoded(_, _)
Encoded(es, k) ==
    IF k = 0 THEN <<>> ELSE Encoded(es, k - 1) \o EntryBytes(es[k])

(* C7: the flush results so far, put end to end, are the encoding of the
   first k entries ever appended, in append order, and the queue holds the
   remaining ones: every appended entry is in exactly one flush result or
   still queued, none is dropped and none is flushed twice. *)
C7_SettlementExactlyOnce ==
    \E k \in 0..Len(appended) :
        /\ flushed = Encoded(appended, k)
        /\ settlement = SubSeq(appended, k + 1, Len(appended))

\* An entry was appended, flushed, and a different entry appended after.
C7_Witness ==
    /\ Len(appended) = 2 /\ appended[1] # appended[2]
    /\ Len(flushed) = BytesPerEntry
    /\ settlement = << appended[2] >>

(* C8: the buffer flush_settlement returns holds BytesPerEntry bytes for each
   entry settlement_size() counted just before the call, the queue is empty
   after the call, and a flush of the empty queue returns the empty buffer. *)
C8_SettlementAccounting ==
    last.op = "Flush"
      => /\ Len(last.reply) = last.arg[1] * BytesPerEntry
         /\ settlement_size = 0
         /\ (last.arg[1] = 0 => last.reply = <<>>)

\* A flush has returned two entries.
C8_Witness ==
    last.op = "Flush" /\ last.arg[1] = 2 /\ Len(last.reply) = 2 * BytesPerEntry

(* C9: an admitted Bet with amount 0 or Sell with shares 0 fails with
   InvalidBetAmount whatever the market state, type and balance, and changes
   neither the stored players nor the market, the queue or the event log. *)
C9_ZeroAmountRejected ==
    [][ Handles({"Bet", "Sell"}) /\ last'.arg[3] = 0 /\ Admitted
          => last'.res = ERROR_INVALID_BET_AMOUNT /\ LedgerUnchanged ]_vars

\* A zero Bet has been rejected on a market that is not active.
C9_Witness ==
    /\ last.op = "Bet" /\ last.arg[3] = 0 /\ last.res = ERROR_INVALID_BET_AMOUNT
    /\ ~is_active(market)
    /\ players[last.pid].balance > 0

(* C10: a successful Bet lowers the player's balance by the amount and raises
   only the matching side's shares, by the shares the engine returned; a
   successful Sell lowers only the matching side's shares by the shares sold
   and raises the balance by the engine's payout; other players are not
   touched, and no command other than Bet, Sell or Claim changes any share
   count. *)
C10_BetSellConservation ==
    [][ LET p == last'.pid
            kind == last'.arg[2]
            n == last'.arg[3]
            v == last'.reply.val
        IN
        /\ Handles({"Bet"}) /\ last'.res = OK
             => /\ players'[p].balance = players[p].balance - n
                /\ players'[p].yes_shares =
                     players[p].yes_shares + (IF kind = 1 THEN v ELSE 0)
                /\ players'[p].no_shares =
                     players[p].no_shares + (IF kind = 1 THEN 0 ELSE v)
                /\ OthersUnchanged({p})
        /\ Handles({"Sell"}) /\ last'.res = OK
             => /\ players'[p].balance = players[p].balance + v
                /\ players'[p].yes_shares =
                     players[p].yes_shares - (IF kind = 1 THEN n ELSE 0)
                /\ players'[p].no_shares =
                     players[p].no_shares - (IF kind = 1 THEN 0 ELSE n)
                /\ OthersUnchanged({p})
        /\ ~Handles({"Bet", "Sell", "Claim"})
             => \A q \in DOMAIN players : SharesUnchanged(q) ]_vars

\* NO shares have been sold, after the Bet that bought them.
C10_Witness ==
    /\ last.op = "Sell" /\ last.res = OK /\ last.arg[2] # 1
    /\ Len(events) = 2

(* C11: on a resolved market an admitted Claim of a player who has not
   claimed either succeeds, with a payout p > 0 answered by calculate_payout,
   the stored balance raised by exactly p, the claim flag set and no other
   record touched, or fails with NoWinningPosition because the payout was 0;
   so a payout p > 0 always succeeds.  No Claim of a player one of whose
   Claims has succeeded changes any stored record, and an admitted Claim on
   an unresolved market fails with MarketNotResolved and changes nothing. *)
C11_ClaimPayoutOnce ==
    [][ Handles({"Claim"})
          => LET p == last'.pid IN
             /\ Admitted /\ ~market.resolved
                  => last'.res = ERROR_MARKET_NOT_RESOLVED /\ LedgerUnchanged
             /\ Admitted /\ market.resolved /\ ~players[p].claimed
                  => \/ /\ last'.res = OK
                        /\ last'.reply.val > 0
                        /\ players'[p] =
                             [players[p] EXCEPT !.balance = @ + last'.reply.val,
                                                !.claimed = TRUE,
                                                !.nonce = @ + 1]
                        /\ OthersUnchanged({p})
                        /\ UNCHANGED <<market, settlement, events>>
                     \/ /\ last'.res = ERROR_NO_WINNING_POSITION
                        /\ last'.reply.val = 0
                        /\ LedgerUnchanged
             /\ <<p, OK>> \in claims => last'.res # OK /\ players' = players ]_vars

\* A holder of shares has claimed on the resolved market and has been paid.
C11_Witness ==
    /\ last.op = "Claim" /\ last.res = OK /\ last.reply.val > 0
    /\ players[last.pid].claimed
    /\ players[last.pid].yes_shares + players[last.pid].no_shares > 0

(* C12: on an active market an admitted Sell of shares > 0 by a player who
   holds fewer on the matching side (yes_shares for sell_type 1, no_shares for
   any other type) fails with InsufficientBalance, the engine's sell_shares is
   not called, and the stored players, the market, the queue and the event
   log are unchanged. *)
C12_InsufficientShareSell ==
    [][ LET p == last'.pid
            held == IF last'.arg[2] = 1 THEN players[p].yes_shares
                                        ELSE players[p].no_shares
        IN
        /\ Handles({"Sell"}) /\ Admitted /\ is_active(market)
        /\ last'.arg[3] > 0 /\ held < last'.arg[3]
        => /\ last'.res = ERROR_INSUFFICIENT_BALANCE
           /\ \A i \in DOMAIN last'.trace : last'.trace[i] # SELL_SHARES
           /\ LedgerUnchanged ]_vars

\* A holder of one YES share has been refused the sale of two.
C12_Witness ==
    /\ last.op = "Sell" /\ last.res = ERROR_INSUFFICIENT_BALANCE
    /\ last.arg[2] = 1 /\ last.arg[3] = 2
    /\ players[last.pid].yes_shares = 1

(* C13: a successful Withdraw lowers the player's stored balance by the
   withdrawal amount, advances the stored nonce, appends exactly one entry
   holding the three payload words as they came, emits no event and changes
   neither the market nor any other player; no other command appends to the
   queue, a flush empties it, and so the queue length is the number of
   successful Withdraws since the last flush. *)
C13_WithdrawEffect ==
    [][ LET p == last'.pid
            withdrawn == Handles({"Withdraw"}) /\ last'.res = OK
        IN
        /\ withdrawn
             => /\ players'[p] =
                     [players[p] EXCEPT !.balance = @ - Low32(last'.arg[1]),
                                        !.nonce = @ + 1]
                /\ OthersUnchanged({p})
                /\ settlement' =
                     Append(settlement, [ limbs |-> last'.arg, feature |-> 0 ])
                /\ UNCHANGED <<market, events>>
        /\ Len(appended') = Len(appended) + (IF withdrawn THEN 1 ELSE 0)
        /\ ~withdrawn /\ last'.op # "Flush" => settlement' = settlement
        /\ last'.op = "Flush" => settlement' = <<>>
        /\ Len(settlement') = Len(appended') - (Len(flushed') \div BytesPerEntry) ]_vars

\* A payload whose first word has high bits set has been queued unmodified.
C13_Witness ==
    /\ last.op = "Withdraw" /\ last.res = OK
    /\ last.arg[1].hi # 0
    /\ settlement # <<>> /\ settlement[Len(settlement)].limbs = last.arg

(* C14: a Withdraw, Deposit or Activity whose nonce differs from the stored
   nonce of the authenticating player halts in check_and_inc_nonce, before
   any other call on the shared state, and changes no player record, nor the
   market, the queue or the event log. *)
C14_NonceGateFirst ==
    [][ /\ Handles(HandlerOps) /\ Exists(players, last'.pid)
        /\ players[last'.pid].nonce # last'.nonce
        => /\ last'.res = HALT
           /\ last'.trace = << CHECK_NONCE >>
           /\ LedgerUnchanged ]_vars

\* A Bet that the balance and the market allowed has halted on its nonce.
C14_Witness ==
    /\ last.op = "Bet" /\ last.res = HALT
    /\ Exists(players, last.pid) /\ players[last.pid].nonce # last.nonce
    /\ last.arg[3] > 0 /\ players[last.pid].balance >= last.arg[3]
    /\ is_active(market)

(* C15: an admitted Withdraw whose masked 32-bit amount exceeds the player's
   balance halts, it returns no error code, no entry is appended and the
   stored balance and nonce are unchanged; no step leaves a stored balance
   below zero. *)
C15_WithdrawPrecondition ==
    [][ /\ ( /\ Handles({"Withdraw"}) /\ Admitted
             /\ WithdrawAmount(last'.arg) > players[last'.pid].balance
             => /\ last'.res = HALT
                /\ \A i \in DOMAIN last'.trace : last'.trace[i] # APPEND_SETTLEMENT
                /\ LedgerUnchanged /\ appended' = appended )
        /\ \A q \in DOMAIN players' : players'[q].balance >= 0 ]_vars

\* A Withdraw of more than the balance has halted.
C15_Witness ==
    /\ last.op = "Withdraw" /\ last.res = HALT
    /\ Exists(players, last.pid) /\ players[last.pid].nonce = last.nonce
    /\ players[last.pid].balance < WithdrawAmount(last.arg)

(* C16 (as stated): the amount a successful Withdraw subtracts from the
   balance is the low 32 bits of the third payload word, and an admitted
   Withdraw succeeds exactly when the balance covers that amount. *)
C16_AmountInThirdWord ==
    [][ Handles({"Withdraw"}) /\ Admitted
          => LET amount == Low32(last'.arg[3]) IN
             /\ last'.res = OK <=> players[last'.pid].balance >= amount
             /\ last'.res = OK
                  => players'[last'.pid].balance = players[last'.pid].balance - amount ]_vars

(* C17: an admitted WithdrawFees with a fee pool f > 0 succeeds, raises the
   caller's stored balance by exactly f and sets the pool to 0; with an empty
   pool it fails with NoWinningPosition and changes nothing; no other step
   lowers the pool. *)
C17_FeeWithdrawal ==
    [][ LET p == last'.pid
            f == market.total_fees_collected
        IN
        /\ Handles({"WithdrawFees"}) /\ Admitted /\ f > 0
             => /\ last'.res = OK
                /\ players'[p] = [players[p] EXCEPT !.balance = @ + f, !.nonce = @ + 1]
                /\ OthersUnchanged({p})
                /\ market' = [market EXCEPT !.total_fees_collected = 0]
                /\ UNCHANGED <<settlement, events>>
        /\ Handles({"WithdrawFees"}) /\ Admitted /\ f = 0
             => last'.res = ERROR_NO_WINNING_POSITION /\ LedgerUnchanged
        /\ ~Handles({"WithdrawFees"})
             => market'.total_fees_collected >= f ]_vars

\* The pool collected from a trade has been paid out.
C17_Witness ==
    /\ last.op = "WithdrawFees" /\ last.res = OK
    /\ market.total_fees_collected = 0
    /\ players[last.pid].balance > 0
    /\ events # <<>>

(* C18: an admitted Resolve(outcome) reaches the engine's resolve whatever
   the time counter, with outcome_bool = (outcome # 0); its result is the
   engine's: success on an unresolved market, which becomes resolved with that
   outcome, MarketAlreadyResolved on a resolved one; it is never
   MarketNotResolved. *)
C18_ResolveGateOpen ==
    [][ Handles({"Resolve"}) /\ Admitted
          => /\ \E i \in DOMAIN last'.trace : last'.trace[i] = RESOLVE
             /\ last'.res # ERROR_MARKET_NOT_RESOLVED
             /\ IF market.resolved
                  THEN last'.res = ERROR_MARKET_ALREADY_RESOLVED /\ LedgerUnchanged
                  ELSE /\ last'.res = OK
                       /\ market' = [market EXCEPT !.resolved = TRUE,
                                                   !.outcome = (last'.arg[2] # 0)] ]_vars

\* The market has been resolved to YES before its end time.
C18_Witness ==
    /\ last.op = "Resolve" /\ last.res = OK /\ last.arg[2] # 0
    /\ ~can_resolve(market, market.counter)
    /\ market.resolved /\ market.outcome

\* The discriminant field of an event.
Discriminant(ev) == ev[2][4]

RECURSIVE Held(_, _)
Held(tr, k) ==
    IF k = 0 THEN "none"
    ELSE CASE tr[k] = BORROW -> "shared"
           [] tr[k] = BORROW_MUT -> "exclusive"
           [] tr[k] = RELEASE -> "none"
           [] OTHER -> Held(tr, k - 1)

(* C20 (as stated): in every handler no borrow of the market state is
   requested while an exclusive one is held, no borrow, shared or exclusive,
   is held where the player record is stored or an event is emitted, and the
   handler returns with no borrow outstanding. *)
C20_NoBorrowAtStore ==
    [][ Handles(HandlerOps)
          => LET tr == last'.trace IN
             /\ \A k \in DOMAIN tr :
                  tr[k] \in {BORROW, BORROW_MUT} => Held(tr, k - 1) # "exclusive"
             /\ \A k \in DOMAIN tr :
                  tr[k] \in {STORE, INSERT_EVENT} => Held(tr, k - 1) = "none"
             /\ Held(tr, Len(tr)) = "none" ]_vars

(* C20 (amended): in every handler no borrow of the market state is requested
   while another one, exclusive or shared, is held; no exclusive borrow is
   held where the player record is stored or an event is emitted; the only
   borrow held at such a point is the shared borrow of a successful Claim,
   held across its store; and the handler returns with no borrow outstanding
   on success, error and halt. *)
C20_BorrowDiscipline ==
    [][ Handles(HandlerOps)
          => LET tr == last'.trace IN
             /\ \A k \in DOMAIN tr :
                  tr[k] \in {BORROW, BORROW_MUT} => Held(tr, k - 1) = "none"
             /\ \A k \in DOMAIN tr :
                  tr[k] \in {STORE, INSERT_EVENT}
                    => /\ Held(tr, k - 1) # "exclusive"
                       /\ Held(tr, k - 1) = "shared"
                            <=> last'.op = "Claim" /\ tr[k] = STORE
             /\ Held(tr, Len(tr)) = "none" ]_vars

\* A Claim has stored the record under its shared borrow.
C20_Witness ==
    /\ last.op = "Claim" /\ last.res = OK
    /\ \E k \in DOMAIN last.trace :
         last.trace[k] = STORE /\ Held(last.trace, k - 1) = "shared"

====
